---- MODULE Spec2Model ----
(***************************************************************************)
(* Torc phase-execution template of poiesis:                               *)
(*   TorcExecutionTemplate  (execute / create_job / wait / log)            *)
(*   TorcTexamExecution     (start_job)                                    *)
(* Text values whose structure matters (configuration strings, task ids,   *)
(* job names) are sequences of one-character strings.                      *)
(***************************************************************************)
EXTENDS Integers, Sequences, FiniteSets, TLC

\* ------------------------------------------------------------- bounds
NumInv == 2
MaxPublish == 2
MaxTtlLen == 3

\* ------------------------------------------------ text and int(str)
Digits == {"0", "1", "2"}
TtlChars == Digits \cup {"-", "+", " ", "_", "x"}

StrUpTo(n) == UNION {[1..k -> TtlChars] : k \in 0..n}

DigitVal(c) == CASE c = "0" -> 0 [] c = "1" -> 1 [] c = "2" -> 2 [] OTHER -> 0

RECURSIVE LStrip(_)
LStrip(s) == IF s # <<>> /\ Head(s) = " " THEN LStrip(Tail(s)) ELSE s

RECURSIVE RStrip(_)
RStrip(s) ==
    IF s # <<>> /\ s[Len(s)] = " " THEN RStrip(SubSeq(s, 1, Len(s) - 1)) ELSE s

\* The digit part of a decimal literal: digits, single underscores between them.
ValidDigits(d) ==
    /\ d # <<>>
    /\ d[1] \in Digits
    /\ d[Len(d)] \in Digits
    /\ \A k \in 1..Len(d) : d[k] \in Digits \cup {"_"}
    /\ \A k \in 1..(Len(d) - 1) : ~(d[k] = "_" /\ d[k + 1] = "_")

RECURSIVE DigitsValue(_, _)
DigitsValue(d, acc) ==
    IF d = <<>> THEN acc
    ELSE IF Head(d) = "_" THEN DigitsValue(Tail(d), acc)
    ELSE DigitsValue(Tail(d), 10 * acc + DigitVal(Head(d)))

\* Python's int(text): surrounding whitespace stripped, an optional sign, then
\* the digit part; anything else raises ValueError (ok = FALSE).
PyInt(s) ==
    LET t == RStrip(LStrip(s))
        signed == t # <<>> /\ Head(t) \in {"-", "+"}
        d == IF signed THEN Tail(t) ELSE t
        v == DigitsValue(d, 0)
    IN  IF ValidDigits(d)
        THEN [ok |-> TRUE, value |-> IF signed /\ Head(t) = "-" THEN 0 - v ELSE v]
        ELSE [ok |-> FALSE, value |-> 0]

\* ------------------------------------------------------ configuration
\* Values of core_constants.K8s; the prefixes are kept as text because job
\* names are built from them.
TEXAM_PREFIX == <<"t", "e", "x", "a", "m">>
TORC_PREFIX == <<"t", "o", "r", "c">>
TIF_PREFIX == <<"t", "i", "f">>
TOF_PREFIX == <<"t", "o", "f">>
PVC_PREFIX == <<"p", "v", "c">>

\* The groups assembled by the constants module, as the names they bind.
get_message_broker_envs == <<"MESSAGE_BROKER_HOST", "MESSAGE_BROKER_PORT">>
get_mongo_envs == <<"MONGODB_HOST", "MONGODB_PORT">>
get_s3_envs == <<"S3_URL", "AWS_ACCESS_KEY_ID">>
get_secret_names == <<"POIESIS_MONGO_SECRET_NAME", "POIESIS_S3_SECRET_NAME">>
get_configmap_names == <<"POIESIS_CORE_CONFIGMAP_NAME">>

NoTtl == [set |-> FALSE, value |-> 0]
Ttl(v) == [set |-> TRUE, value |-> v]

\* ---------------------------------------------------- time to live
\* torc_execution_template.py 92-101: int(JOB_TTL) if JOB_TTL else None, with
\* ValueError/TypeError answered by a warning and None.  A JOB_TTL that is not
\* configured (None) and the empty text are both falsy and take the same branch.
create_job_ttl(cfg) ==
    IF cfg # <<>>
    THEN IF PyInt(cfg).ok
         THEN [ttl |-> Ttl(PyInt(cfg).value), warned |-> FALSE]
         ELSE [ttl |-> NoTtl, warned |-> TRUE]
    ELSE [ttl |-> NoTtl, warned |-> FALSE]

\* Variant: an unparseable JOB_TTL falls back to 0 seconds instead of None.
start_job_ttl_zero_fallback(cfg) ==
    IF cfg # <<>>
    THEN IF PyInt(cfg).ok
         THEN [ttl |-> Ttl(PyInt(cfg).value), warned |-> FALSE]
         ELSE [ttl |-> Ttl(0), warned |-> TRUE]
    ELSE [ttl |-> NoTtl, warned |-> FALSE]

\* torc_texam_execution.py 75-84: the same resolution in start_job.
start_job_ttl(cfg) ==
    IF cfg # <<>>
    THEN IF PyInt(cfg).ok
         THEN [ttl |-> Ttl(PyInt(cfg).value), warned |-> FALSE]
         ELSE [ttl |-> NoTtl, warned |-> TRUE]
    ELSE [ttl |-> NoTtl, warned |-> FALSE]

\* ------------------------------------------------------- job builders
NoBackoff == [set |-> FALSE, value |-> 0]

\* torc_execution_template.py 110-116 and 143-149.
create_job_pod_security_context ==
    [ fs_group_change_policy |-> "OnRootMismatch",
      run_as_non_root |-> TRUE,
      seccomp_profile |-> "RuntimeDefault" ]

create_job_container_security_context ==
    [ run_as_user |-> 1000,
      allow_privilege_escalation |-> FALSE,
      capabilities_drop |-> <<"ALL">> ]

\* torc_texam_execution.py 100-106 and 192-198.
start_job_pod_security_context ==
    [ fs_group_change_policy |-> "OnRootMismatch",
      run_as_non_root |-> TRUE,
      seccomp_profile |-> "RuntimeDefault" ]

\* Variant: the container runs as root.
start_job_container_security_context_root ==
    [ run_as_user |-> 0,
      allow_privilege_escalation |-> FALSE,
      capabilities_drop |-> <<"ALL">> ]

start_job_container_security_context ==
    [ run_as_user |-> 1000,
      allow_privilege_escalation |-> FALSE,
      capabilities_drop |-> <<"ALL">> ]

\* Variant: the job declares no volume.
create_job_volumes_none(task_id) == <<>>

\* torc_execution_template.py 159-166: the per-task persistent volume claim.
create_job_volumes(task_id) ==
    << [ name |-> "COMMON_PVC_VOLUME_NAME",
         claim_name |-> PVC_PREFIX \o <<"-">> \o task_id ] >>

\* The V1Job built by create_job (staging jobs, TIF and TOF).
create_job_V1Job(task_id, job_name, commands, args, metadata, ttl, backoff) ==
    [ kind |-> "Job",
      metadata |-> metadata,
      backoff_limit |-> [set |-> TRUE, value |-> backoff],
      pod_security_context |->
          create_job_pod_security_context,
      service_account_name |-> "None",
      container |->
          [ name |-> job_name,
            image |-> "POIESIS_IMAGE",
            command |-> commands,
            args |-> args,
            env |-> get_message_broker_envs \o get_mongo_envs \o get_s3_envs
                      \o get_secret_names \o get_configmap_names
                      \o <<"POIESIS_IMAGE", "LOG_LEVEL">>,
            security_context |-> create_job_container_security_context,
            volume_mounts |->
                << [name |-> "COMMON_PVC_VOLUME_NAME", mount_path |-> "FILER_PVC_PATH"] >>,
            image_pull_policy |-> "IMAGE_PULL_POLICY" ],
      volumes |-> create_job_volumes(task_id),
      restart_policy |-> "RESTART_POLICY",
      ttl_seconds_after_finished |-> ttl ]

\* json.dumps(self.task.model_dump()): the task document as one text argument.
json_dumps(task) == <<"json", task>>

\* Variant: the job name is the role prefix alone.
start_job_texam_name_no_id(id) == TEXAM_PREFIX

\* torc_texam_execution.py 74: f"{TEXAM_PREFIX}-{self.id}".
start_job_texam_name(id) == TEXAM_PREFIX \o <<"-">> \o id

\* The V1Job built by TorcTexamExecution.start_job.
start_job_V1Job(id, task, ttl) ==
    LET texam_name == start_job_texam_name(id)
    IN  [ kind |-> "Job",
          metadata |->
              [ name |-> texam_name,
                labels |-> [ service |-> TEXAM_PREFIX,
                             parent |-> TORC_PREFIX \o <<"-">> \o id,
                             name |-> texam_name ] ],
          backoff_limit |-> NoBackoff,
          pod_security_context |->
              start_job_pod_security_context,
          service_account_name |-> "SERVICE_ACCOUNT_NAME",
          container |->
              [ name |-> TIF_PREFIX,
                image |-> "POIESIS_IMAGE",
                command |-> <<"poiesis", "texam", "run">>,
                args |-> <<"--task", json_dumps(task)>>,
                env |-> get_mongo_envs \o get_message_broker_envs
                          \o get_secret_names \o get_configmap_names
                          \o <<"POIESIS_IMAGE", "LOG_LEVEL">>
                          \o <<"MONITOR_TIMEOUT_SECONDS", "POIESIS_K8S_NAMESPACE",
                               "POIESIS_SERVICE_ACCOUNT_NAME", "POIESIS_RESTART_POLICY",
                               "POIESIS_IMAGE_PULL_POLICY", "POIESIS_JOB_TTL">>,
                security_context |-> start_job_container_security_context,
                volume_mounts |-> <<>>,
                image_pull_policy |-> "IMAGE_PULL_POLICY" ],
          volumes |-> <<>>,
          restart_policy |-> "RESTART_POLICY",
          ttl_seconds_after_finished |-> ttl ]

\* -------------------------------------------------------------- state
Invocations == 1..NumInv
Ids == {<<"a">>, <<"b">>}
NoId == <<>>
Texts == {"disk full"}
TaskNames == {"n1", "n2"}

\* A Message of the broker port (status, message); None is the falsy item.
None == [status |-> "NONE", message |-> ""]
Messages ==
    {[status |-> "OK", message |-> "done"]} \cup [status : {"ERROR"}, message : Texts]
Items == {None} \cup Messages

\* The TES task handed to TorcTexamExecution.
Tasks == [id : Ids, name : TaskNames]
NoTask == [id |-> NoId, name |-> ""]
NoCall == [task_id |-> NoId]

\* What a staging variant's start_job hands to create_job.
StagingCalls ==
    { [ task_id |-> t, job_name |-> r,
        commands |-> <<"poiesis", r, "run">>,
        args |-> <<"--name", r \o <<"-">> \o t>>,
        metadata |-> [ name |-> r \o <<"-">> \o t,
                       labels |-> [ service |-> r,
                                    parent |-> TORC_PREFIX \o <<"-">> \o t,
                                    name |-> r \o <<"-">> \o t ] ] ]
      : t \in Ids, r \in {TIF_PREFIX, TOF_PREFIX} }

VARIABLES
    JOB_TTL,        \* core_constants.K8s.JOB_TTL, as text (<<>>: empty or unset)
    BACKOFF_LIMIT,  \* core_constants.K8s.BACKOFF_LIMIT, as text
    variant,        \* per object: "texam", "staging", or "absent" (not constructed)
    has_id,         \* per object: hasattr(self, "id")
    id,             \* per object: self.id
    task,           \* per object: self.task (texam)
    call,           \* per object: what its start_job hands to create_job (staging)
    message,        \* per object: self.message
    entry,          \* per object: the method the caller invoked
    pc,             \* per object: where its coroutine stands
    outcome,        \* per object: "running", "returned" or the exception raised
    k8s,            \* per object: the calls made on self.kubernetes_client
    trace,          \* per object: the calls it made on its collaborators, in order
    subscribed,     \* per object: its subscription is open
    delivered,      \* per object: the items its subscription has produced
    taken,          \* per object: how many of them the for loop has taken
    published,      \* how many items have been published on the channels
    reported,       \* per object: its job has published its completion message
    store,          \* per task id: the task document's system logs and end time
    thread          \* the object whose synchronous wait() holds the event loop, or 0

\* Configuration and the constructed objects' attributes: never assigned again.
fixed == << JOB_TTL, BACKOFF_LIMIT, variant, has_id, id, task, call >>

vars == << JOB_TTL, BACKOFF_LIMIT, variant, has_id, id, task, call, message, entry,
           pc, outcome, k8s, trace, subscribed, delivered, taken, published, reported,
           store, thread >>

Ev(op, key, arg) == [op |-> op, key |-> key, arg |-> arg]

EmptyStore == [k \in Ids |-> [system_logs |-> <<>>, end_time |-> FALSE]]

\* The objects a caller can construct: TorcTexamExecution(task) sets id from
\* the task (torc_texam_execution.py 68-70); a staging variant may or may not
\* have assigned id (the template's __init__ does not, 62-65).
Objects ==
    { [variant |-> "texam", has_id |-> TRUE, id |-> t.id, task |-> t, call |-> NoCall]
      : t \in Tasks }
    \cup { [variant |-> "staging", has_id |-> TRUE, id |-> c.task_id, task |-> NoTask,
            call |-> c] : c \in StagingCalls }
    \cup { [variant |-> "staging", has_id |-> FALSE, id |-> NoId, task |-> NoTask,
            call |-> c] : c \in StagingCalls }

Absent ==
    [variant |-> "absent", has_id |-> FALSE, id |-> NoId, task |-> NoTask, call |-> NoCall]

InitWith(ttls, backoffs, objs) ==
    /\ JOB_TTL \in ttls
    /\ BACKOFF_LIMIT \in backoffs
    /\ variant = [i \in Invocations |-> objs[i].variant]
    /\ has_id = [i \in Invocations |-> objs[i].has_id]
    /\ id = [i \in Invocations |-> objs[i].id]
    /\ task = [i \in Invocations |-> objs[i].task]
    /\ call = [i \in Invocations |-> objs[i].call]
    /\ message = [i \in Invocations |-> None]
    /\ entry = [i \in Invocations |-> "none"]
    /\ pc = [i \in Invocations |-> "created"]
    /\ outcome = [i \in Invocations |-> "running"]
    /\ k8s = [i \in Invocations |-> <<>>]
    /\ trace = [i \in Invocations |-> <<>>]
    /\ subscribed = [i \in Invocations |-> FALSE]
    /\ delivered = [i \in Invocations |-> <<>>]
    /\ taken = [i \in Invocations |-> 0]
    /\ published = 0
    /\ reported = [i \in Invocations |-> FALSE]
    /\ store = EmptyStore
    /\ thread = 0

\* The concurrent runs take one well-formed JOB_TTL (SpecBuild ranges over the
\* texts) and a BACKOFF_LIMIT that is or is not a number.
TtlSamples == {<<"1", "2">>}
BackoffSamples == {<<"1">>, <<"x">>}

\* The objects of the concurrent runs: both variants, two task ids, and a
\* staging object on which id was never assigned.
SpecObjects ==
    { o \in Objects :
        /\ o.variant = "texam" => o.task.name = "n1"
        /\ o.variant = "staging" =>
              o.call.task_id = <<"a">> /\ o.call.job_name = TIF_PREFIX }

\* Invocations are interchangeable: the objects are listed in one fixed order.
Rank(o) ==
    IF o.variant = "texam" THEN (IF o.id = <<"a">> THEN 1 ELSE 2)
    ELSE IF o.has_id THEN 3 ELSE 4

Init ==
    \E objs \in [Invocations -> SpecObjects] :
        /\ \A i \in Invocations : \A j \in Invocations :
               i < j => Rank(objs[i]) <= Rank(objs[j])
        /\ InitWith(TtlSamples, BackoffSamples, objs)

\* ---------------------------------------------- the methods' steps
RaiseEv(exc) == Ev("raise", NoId, exc)

\* TorcExecutionTemplate.create_job 174-178: the scheduler's answer.  An
\* ApiException is logged and raised again; otherwise create_job returns.
create_job_after(result) ==
    IF result = "ApiException"
    THEN [raised |-> "ApiException",
          events |-> <<Ev("logger.error", NoId, "ApiException"), RaiseEv("ApiException")>>]
    ELSE [raised |-> "none", events |-> <<>>]

\* Variant: the ApiException is logged and another error is raised in its place.
start_job_after_wrapped(result) ==
    IF result = "ApiException"
    THEN [raised |-> "RuntimeError",
          events |-> <<Ev("logger.error", NoId, "ApiException"), RaiseEv("RuntimeError")>>]
    ELSE [raised |-> "none", events |-> <<>>]

\* TorcTexamExecution.start_job 208-212: the same handling.
start_job_after(result) ==
    IF result = "ApiException"
    THEN [raised |-> "ApiException",
          events |-> <<Ev("logger.error", NoId, "ApiException"), RaiseEv("ApiException")>>]
    ELSE [raised |-> "none", events |-> <<>>]

\* Variant: execute() goes on to wait() whatever start_job() did.
execute_next_always_wait(raised) == "wait"

\* execute 69-70: wait() follows start_job() only when start_job() returned; an
\* exception of start_job() leaves execute() at once.
execute_next(raised) == IF raised # "none" THEN "propagate" ELSE "wait"

\* Variant: no hasattr check before the subscription.
wait_begin_unchecked(has, key) ==
    [pc |-> "waiting", outcome |-> "running", sub |-> TRUE,
     events |-> <<Ev("broker.subscribe", key, "")>>]

\* Variant: every invocation subscribes on one shared channel.
wait_begin_shared_channel(has, key) ==
    IF ~has
    THEN [pc |-> "done", outcome |-> "AttributeError", sub |-> FALSE,
          events |-> <<RaiseEv("AttributeError")>>]
    ELSE [pc |-> "waiting", outcome |-> "running", sub |-> TRUE,
          events |-> <<Ev("broker.subscribe", <<"a">>, "")>>]

\* wait 194-197: the precondition, then the subscription on self.id.
wait_begin(has, key) ==
    IF ~has
    THEN [pc |-> "done", outcome |-> "AttributeError", sub |-> FALSE,
          events |-> <<RaiseEv("AttributeError")>>]
    ELSE [pc |-> "waiting", outcome |-> "running", sub |-> TRUE,
          events |-> <<Ev("broker.subscribe", key, "")>>]

\* wait 198-202: one turn of the for loop on the item taken.
\* Variant: the loop stores the item and goes on (no break).
wait_item_no_break(item) ==
    IF item # None
    THEN [store |-> TRUE, stop |-> FALSE,
          events |-> (IF item.status = "ERROR"
                      THEN <<Ev("logger.error", NoId, item.message)>> ELSE <<>>)
                     \o <<Ev("self.message", NoId, item.message)>>]
    ELSE [store |-> FALSE, stop |-> FALSE, events |-> <<>>]

\* Variant: the error text is not logged at receipt.
wait_item_silent(item) ==
    IF item # None
    THEN [store |-> TRUE, stop |-> TRUE,
          events |-> <<Ev("self.message", NoId, item.message)>>]
    ELSE [store |-> FALSE, stop |-> FALSE, events |-> <<>>]

\* store: self.message = message; stop: break.  The error text of an ERROR
\* message is logged (200) before the message is stored (201).
wait_item(item) ==
    IF item # None
    THEN [store |-> TRUE, stop |-> TRUE,
          events |-> (IF item.status = "ERROR"
                      THEN <<Ev("logger.error", NoId, item.message)>> ELSE <<>>)
                     \o <<Ev("self.message", NoId, item.message)>>]
    ELSE [store |-> FALSE, stop |-> FALSE, events |-> <<>>]

\* Variant: the status is not looked at; every message is persisted.
log_begin_any_status(has, key, msg) ==
    IF ~has
    THEN [pc |-> "done", outcome |-> "AttributeError",
          events |-> <<RaiseEv("AttributeError")>>]
    ELSE IF msg = None
    THEN [pc |-> "done", outcome |-> "returned", events |-> <<>>]
    ELSE [pc |-> "appending", outcome |-> "running",
          events |-> <<Ev("logger.error", NoId, msg.message),
                       Ev("db.add_tes_task_system_logs", key, msg.message)>>]

\* Variant: an ERROR message sets the end time without appending the log.
log_begin_no_append(has, key, msg) ==
    IF ~has
    THEN [pc |-> "done", outcome |-> "AttributeError",
          events |-> <<RaiseEv("AttributeError")>>]
    ELSE IF msg = None
    THEN [pc |-> "done", outcome |-> "returned", events |-> <<>>]
    ELSE IF msg.status = "ERROR"
    THEN [pc |-> "ending", outcome |-> "running",
          events |-> <<Ev("logger.error", NoId, msg.message),
                       Ev("db.add_tes_task_log_end_time", key, "")>>]
    ELSE [pc |-> "done", outcome |-> "returned",
          events |-> <<Ev("logger.info", NoId, msg.message)>>]

\* log 206-211 and 216-217: up to the first await, or to the return.
log_begin(has, key, msg) ==
    IF ~has
    THEN [pc |-> "done", outcome |-> "AttributeError",
          events |-> <<RaiseEv("AttributeError")>>]
    ELSE IF msg = None
    THEN [pc |-> "done", outcome |-> "returned", events |-> <<>>]
    ELSE IF msg.status = "ERROR"
    THEN [pc |-> "appending", outcome |-> "running",
          events |-> <<Ev("logger.error", NoId, msg.message),
                       Ev("db.add_tes_task_system_logs", key, msg.message)>>]
    ELSE [pc |-> "done", outcome |-> "returned",
          events |-> <<Ev("logger.info", NoId, msg.message)>>]

\* Variant: a failure of the append is swallowed and log() goes on.
log_after_append_swallowed(result, key) ==
    [pc |-> "ending", outcome |-> "running",
     events |-> <<Ev("db.add_tes_task_log_end_time", key, "")>>]

\* Variant: the RuntimeError is raised right after the append.
log_after_append_no_end_time(result, key) ==
    IF result = "ok"
    THEN [pc |-> "done", outcome |-> "RuntimeError", events |-> <<RaiseEv("RuntimeError")>>]
    ELSE [pc |-> "done", outcome |-> "StoreError", events |-> <<RaiseEv("StoreError")>>]

\* log 211-212: add_tes_task_system_logs has answered.
log_after_append(result, key) ==
    IF result = "ok"
    THEN [pc |-> "ending", outcome |-> "running",
          events |-> <<Ev("db.add_tes_task_log_end_time", key, "")>>]
    ELSE [pc |-> "done", outcome |-> "StoreError", events |-> <<RaiseEv("StoreError")>>]

\* log 212-215: add_tes_task_log_end_time has answered.
log_after_end_time(result) ==
    IF result = "ok"
    THEN [pc |-> "done", outcome |-> "RuntimeError", events |-> <<RaiseEv("RuntimeError")>>]
    ELSE [pc |-> "done", outcome |-> "StoreError", events |-> <<RaiseEv("StoreError")>>]

\* The task store's two writes (MongoDBClient).
add_tes_task_system_logs(st, key, logs) ==
    [st EXCEPT ![key].system_logs = @ \o logs]

add_tes_task_log_end_time(st, key) ==
    [st EXCEPT ![key].end_time = TRUE]

TtlWarning(r) ==
    IF r.warned THEN <<Ev("logger.warning", NoId, "Invalid JOB_TTL")>> ELSE <<>>

\* The channel invocation i subscribed on (wait 197), NoId before it did.
Channel(i) ==
    LET S == {n \in 1..Len(trace[i]) : trace[i][n].op = "broker.subscribe"}
    IN  IF S = {} THEN NoId ELSE trace[i][CHOOSE n \in S : TRUE].key

\* The call invocation i is awaiting: the last one it made.
PendingCall(i) == trace[i][Len(trace[i])]

\* ------------------------------------------------------------ actions
\* execute() once start_job() has returned or raised: the exception reaches
\* the caller, or wait() starts in the same synchronous stretch.
AfterStartJob(i, raised) ==
    IF execute_next(raised) = "propagate"
    THEN [pc |-> "done", outcome |-> raised, sub |-> FALSE, events |-> <<>>]
    ELSE wait_begin(has_id[i], id[i])

\* execute() on a TorcTexamExecution: start_job up to its await on the
\* scheduler client (torc_texam_execution.py 72-209).
StartJob(i) ==
    /\ thread = 0
    /\ variant[i] = "texam"
    /\ pc[i] = "created"
    /\ LET r == start_job_ttl(JOB_TTL)
           job == start_job_V1Job(id[i], task[i], r.ttl)
       IN  /\ trace' = [trace EXCEPT ![i] = @ \o TtlWarning(r)
                          \o <<Ev("logger.debug", NoId, "job"),
                               Ev("k8s.create_job", NoId, "")>>]
           /\ k8s' = [k8s EXCEPT ![i] = Append(@, [op |-> "create_job", job |-> job, result |-> "pending"])]
    /\ pc' = [pc EXCEPT ![i] = "submitting"]
    /\ entry' = [entry EXCEPT ![i] = "execute"]
    /\ UNCHANGED << fixed, message, outcome,
                    subscribed, delivered, taken, published, reported, store, thread >>

\* execute() on a staging variant: its start_job calls create_job, which runs
\* up to its await on the scheduler client (torc_execution_template.py 73-175);
\* int(BACKOFF_LIMIT) at 107 is outside any try.
CreateJob(i) ==
    /\ thread = 0
    /\ variant[i] = "staging"
    /\ pc[i] = "created"
    /\ entry' = [entry EXCEPT ![i] = "execute"]
    /\ LET c == call[i]
           r == create_job_ttl(JOB_TTL)
           b == PyInt(BACKOFF_LIMIT)
           job == create_job_V1Job(c.task_id, c.job_name, c.commands, c.args,
                                   c.metadata, r.ttl, b.value)
       IN  IF b.ok
           THEN /\ trace' = [trace EXCEPT ![i] = @ \o TtlWarning(r)
                               \o <<Ev("logger.debug", NoId, "job"),
                                    Ev("k8s.create_job", NoId, "")>>]
                /\ k8s' = [k8s EXCEPT ![i] =
                              Append(@, [op |-> "create_job", job |-> job, result |-> "pending"])]
                /\ pc' = [pc EXCEPT ![i] = "submitting"]
                /\ UNCHANGED << outcome, subscribed, thread >>
           ELSE LET x == AfterStartJob(i, "ValueError")
                IN  /\ trace' = [trace EXCEPT ![i] = @ \o TtlWarning(r)
                                    \o <<RaiseEv("ValueError")>> \o x.events]
                    /\ pc' = [pc EXCEPT ![i] = x.pc]
                    /\ outcome' = [outcome EXCEPT ![i] = x.outcome]
                    /\ subscribed' = [subscribed EXCEPT ![i] = x.sub]
                    /\ thread' = IF x.pc = "waiting" THEN i ELSE 0
                    /\ UNCHANGED k8s
    /\ UNCHANGED << fixed, message, delivered, taken, published, reported, store >>

\* The scheduler answers; execute() goes on through the rest of start_job and,
\* when that returns, into the synchronous wait() (execute 69-70).  A job that
\* has run was accepted.
CreateJobReturn(i) ==
    /\ thread = 0
    /\ pc[i] = "submitting"
    /\ \E result \in (IF reported[i] THEN {"ok"} ELSE {"ok", "ApiException"}) :
           LET a == IF variant[i] = "texam" THEN start_job_after(result)
                    ELSE create_job_after(result)
               x == AfterStartJob(i, a.raised)
           IN  /\ k8s' = [k8s EXCEPT ![i][Len(k8s[i])].result = result]
               /\ trace' = [trace EXCEPT ![i] = @ \o a.events \o x.events]
               /\ pc' = [pc EXCEPT ![i] = x.pc]
               /\ outcome' = [outcome EXCEPT ![i] = x.outcome]
               /\ subscribed' = [subscribed EXCEPT ![i] = x.sub]
               /\ thread' = IF x.pc = "waiting" THEN i ELSE 0
    /\ UNCHANGED << fixed, message, entry, delivered, taken, published, reported, store >>

\* wait() called by itself on a constructed object (188-197).
CallWait(i) ==
    /\ thread = 0
    /\ variant[i] # "absent"
    /\ pc[i] = "created"
    /\ entry' = [entry EXCEPT ![i] = "wait"]
    /\ LET w == wait_begin(has_id[i], id[i])
       IN  /\ trace' = [trace EXCEPT ![i] = @ \o w.events]
           /\ pc' = [pc EXCEPT ![i] = w.pc]
           /\ outcome' = [outcome EXCEPT ![i] = w.outcome]
           /\ subscribed' = [subscribed EXCEPT ![i] = w.sub]
           /\ thread' = IF w.pc = "waiting" THEN i ELSE 0
    /\ UNCHANGED << fixed, message, k8s,
                    delivered, taken, published, reported, store >>

\* log() called by itself on a constructed object (204-217).
CallLog(i) ==
    /\ thread = 0
    /\ variant[i] # "absent"
    /\ pc[i] = "created"
    /\ entry' = [entry EXCEPT ![i] = "log"]
    /\ LET l == log_begin(has_id[i], id[i], message[i])
       IN  /\ trace' = [trace EXCEPT ![i] = @ \o l.events]
           /\ pc' = [pc EXCEPT ![i] = l.pc]
           /\ outcome' = [outcome EXCEPT ![i] = l.outcome]
    /\ UNCHANGED << fixed, message, k8s,
                    subscribed, delivered, taken, published, reported, store, thread >>

\* What follows wait() in the caller: log() under execute() (70-71), the
\* return to the caller when wait() was called by itself.
AfterWait(i, msg) ==
    IF entry[i] = "execute"
    THEN log_begin(has_id[i], id[i], msg)
    ELSE [pc |-> "done", outcome |-> "returned", events |-> <<>>]

\* One turn of wait()'s for loop: the subscription yields its next item.
WaitNext(i) ==
    /\ thread = i
    /\ pc[i] = "waiting"
    /\ taken[i] < Len(delivered[i])
    /\ taken' = [taken EXCEPT ![i] = @ + 1]
    /\ LET item == delivered[i][taken[i] + 1].item
           from == delivered[i][taken[i] + 1].key
           w == wait_item(item)
           msg == IF w.store THEN item ELSE message[i]
           l == AfterWait(i, msg)
       IN  /\ message' = [message EXCEPT ![i] = msg]
           /\ IF w.stop
              THEN /\ trace' = [trace EXCEPT ![i] =
                                   @ \o <<Ev("broker.next", from, item.status)>>
                                     \o w.events \o l.events]
                   /\ pc' = [pc EXCEPT ![i] = l.pc]
                   /\ outcome' = [outcome EXCEPT ![i] = l.outcome]
                   /\ subscribed' = [subscribed EXCEPT ![i] = FALSE]
                   /\ thread' = 0
              ELSE /\ trace' = [trace EXCEPT ![i] =
                                   @ \o <<Ev("broker.next", from, item.status)>>
                                     \o w.events]
                   /\ UNCHANGED << pc, outcome, subscribed, thread >>
    /\ UNCHANGED << fixed, entry, k8s,
                    delivered, published, reported, store >>

\* The subscription ends: the for loop is left with self.message as it is.
WaitExhausted(i) ==
    /\ thread = i
    /\ pc[i] = "waiting"
    /\ taken[i] = Len(delivered[i])
    /\ LET l == AfterWait(i, message[i])
       IN  /\ trace' = [trace EXCEPT ![i] = @ \o l.events]
           /\ pc' = [pc EXCEPT ![i] = l.pc]
           /\ outcome' = [outcome EXCEPT ![i] = l.outcome]
    /\ subscribed' = [subscribed EXCEPT ![i] = FALSE]
    /\ thread' = 0
    /\ UNCHANGED << fixed, message, entry,
                    k8s, delivered, taken, published, reported, store >>

\* The task store answers add_tes_task_system_logs (log 211).
AppendReturn(i) ==
    /\ thread = 0
    /\ pc[i] = "appending"
    /\ \E result \in {"ok", "StoreError"} :
           LET l == log_after_append(result, id[i])
               c == PendingCall(i)
           IN  /\ store' = IF result = "ok"
                           THEN add_tes_task_system_logs(store, c.key, <<c.arg>>)
                           ELSE store
               /\ trace' = [trace EXCEPT ![i] = @ \o l.events]
               /\ pc' = [pc EXCEPT ![i] = l.pc]
               /\ outcome' = [outcome EXCEPT ![i] = l.outcome]
    /\ UNCHANGED << fixed, message, entry,
                    k8s, subscribed, delivered, taken, published, reported, thread >>

\* The task store answers add_tes_task_log_end_time (log 212).
EndTimeReturn(i) ==
    /\ thread = 0
    /\ pc[i] = "ending"
    /\ \E result \in {"ok", "StoreError"} :
           LET l == log_after_end_time(result)
               c == PendingCall(i)
           IN  /\ store' = IF result = "ok"
                           THEN add_tes_task_log_end_time(store, c.key)
                           ELSE store
               /\ trace' = [trace EXCEPT ![i] = @ \o l.events]
               /\ pc' = [pc EXCEPT ![i] = l.pc]
               /\ outcome' = [outcome EXCEPT ![i] = l.outcome]
    /\ UNCHANGED << fixed, message, entry,
                    k8s, subscribed, delivered, taken, published, reported, thread >>

\* A job's reporter publishes an item on a channel; the subscriptions open on
\* that channel receive it, and with no subscription open it is gone.
Publish(k, item) ==
    /\ published < MaxPublish
    /\ published' = published + 1
    /\ delivered' = [i \in Invocations |->
                        IF subscribed[i] /\ Channel(i) = k
                        THEN Append(delivered[i], [key |-> k, item |-> item])
                        ELSE delivered[i]]
    /\ UNCHANGED << fixed, message, entry, pc, outcome, k8s, trace, subscribed,
                    taken, reported, store, thread >>

Next ==
    \/ \E i \in Invocations : StartJob(i)
    \/ \E i \in Invocations : CreateJob(i)
    \/ \E i \in Invocations : CreateJobReturn(i)
    \/ \E i \in Invocations : CallWait(i)
    \/ \E i \in Invocations : CallLog(i)
    \/ \E i \in Invocations : WaitNext(i)
    \/ \E i \in Invocations : WaitExhausted(i)
    \/ \E i \in Invocations : AppendReturn(i)
    \/ \E i \in Invocations : EndTimeReturn(i)
    \/ \E k \in Ids, item \in Items : Publish(k, item)

Spec == Init /\ [][Next]_vars

\* ------------------------------------------------ the builders alone
\* One object of any kind, every JOB_TTL text up to MaxTtlLen, and the
\* submission steps only.
InitBuild ==
    \E o \in Objects :
        InitWith(StrUpTo(MaxTtlLen), BackoffSamples,
                 [i \in Invocations |-> IF i = 1 THEN o ELSE Absent])

NextBuild ==
    \/ \E i \in Invocations : StartJob(i)
    \/ \E i \in Invocations : CreateJob(i)
    \/ \E i \in Invocations : CreateJobReturn(i)

SpecBuild == InitBuild /\ [][NextBuild]_vars

\* ------------------------------------------- one execute() and its job
\* The job of invocation i, once the scheduler has it, runs and its reporter
\* publishes the one completion message on the channel of the identity.  The
\* job is a process of its own: it can publish while the scheduler's answer is
\* still on its way to the coroutine, that is at any moment before wait() has
\* opened the subscription, and the item is then gone.
JobReport(i) ==
    /\ has_id[i]
    /\ k8s[i] # <<>>
    /\ k8s[i][1].result # "ApiException"
    /\ ~reported[i]
    /\ reported' = [reported EXCEPT ![i] = TRUE]
    /\ \E item \in Messages :
           delivered' = [j \in Invocations |->
                            IF subscribed[j] /\ Channel(j) = id[i]
                            THEN Append(delivered[j], [key |-> id[i], item |-> item])
                            ELSE delivered[j]]
    /\ UNCHANGED << fixed, message, entry, pc, outcome, k8s, trace, subscribed,
                    taken, published, store, thread >>

\* One object that carries an identity, under execute(); the subscription
\* never ends by itself and nothing but the job publishes.
InitLive ==
    \E o \in {x \in Objects : x.has_id} :
        InitWith(TtlSamples, BackoffSamples,
                 [i \in Invocations |-> IF i = 1 THEN o ELSE Absent])

\* The steps of the coroutine of invocation i under execute().
ExecuteStep(i) ==
    \/ StartJob(i)
    \/ CreateJob(i)
    \/ CreateJobReturn(i)
    \/ WaitNext(i)
    \/ AppendReturn(i)
    \/ EndTimeReturn(i)

NextLive ==
    \/ \E i \in Invocations : ExecuteStep(i)
    \/ \E i \in Invocations : JobReport(i)

\* The event loop runs a coroutine that can go on, and the scheduler, the
\* subscription and the task store answer a call that was made.
SpecLive ==
    InitLive /\ [][NextLive]_vars /\ \A i \in Invocations : WF_vars(ExecuteStep(i))


\* ------------------------------------------- concurrent execute() only
\* The objects of Spec, each driven through execute() (no wait() or log()
\* called by itself), with the broker free to publish and to end a
\* subscription.
NextExecute ==
    \/ \E i \in Invocations : ExecuteStep(i)
    \/ \E i \in Invocations : WaitExhausted(i)
    \/ \E k \in Ids, item \in Items : Publish(k, item)

SpecExecute == Init /\ [][NextExecute]_vars

\* ============================================================ properties
IsEffect(e) ==
    e.op \in {"db.add_tes_task_system_logs", "db.add_tes_task_log_end_time", "raise"}
IsStoreCall(e) ==
    e.op \in {"db.add_tes_task_system_logs", "db.add_tes_task_log_end_time"}
IsSubscribe(e) == e.op = "broker.subscribe"

\* The store calls and raises of an invocation, in the order it made them.
Effects(i) == SelectSeq(trace[i], IsEffect)
StoreCalls(i) == SelectSeq(trace[i], IsStoreCall)
Subscribes(i) == SelectSeq(trace[i], IsSubscribe)

IsPrefix(a, b) == Len(a) <= Len(b) /\ SubSeq(b, 1, Len(a)) = a
Elems(q) == {q[n] : n \in 1..Len(q)}
Last(q) == q[Len(q)]

\* What log() does with an ERROR message m for identity k, store answering.
ErrorPath(k, m) ==
    << Ev("db.add_tes_task_system_logs", k, m),
       Ev("db.add_tes_task_log_end_time", k, ""),
       RaiseEv("RuntimeError") >>

\* C1: under execute(), once wait() has stored an ERROR message with text m the
\* invocation appends [m] to the system logs of its identity, then sets the end
\* time of its identity, then raises RuntimeError, in this order: the end time
\* is requested only after the append is in the store, the RuntimeError is
\* raised only after the end time is in the store, and the invocation ends with
\* RuntimeError exactly when all three have happened (a store call that fails
\* ends it with the store's error instead).
C1_ErrorPathInOrder ==
    \A i \in Invocations :
        (entry[i] = "execute" /\ message[i].status = "ERROR") =>
            LET E == Effects(i)
                F == ErrorPath(id[i], message[i].message)
            IN  /\ Len(E) >= 1
                /\ \/ IsPrefix(E, F)
                   \/ /\ Last(E) = RaiseEv("StoreError")
                      /\ IsPrefix(SubSeq(E, 1, Len(E) - 1), SubSeq(F, 1, 2))
                /\ Len(E) >= 2 /\ E[2] = F[2] =>
                       message[i].message \in Elems(store[id[i]].system_logs)
                /\ outcome[i] = "RuntimeError" <=> E = F
                /\ outcome[i] = "RuntimeError" => store[id[i]].end_time
                /\ pc[i] = "done" => outcome[i] \in {"RuntimeError", "StoreError"}

C1_Witness ==
    \E i \in Invocations :
        /\ entry[i] = "execute"
        /\ message[i].status = "ERROR"
        /\ outcome[i] = "RuntimeError"
        /\ store[id[i]].system_logs = <<message[i].message>>
        /\ store[id[i]].end_time

\* C2: under execute(), an invocation whose wait() stored an OK message makes no
\* call on the task store and returns normally; a task whose invocations
\* received no ERROR message has an untouched store document.
C2_OkLeavesStoreAlone ==
    /\ \A i \in Invocations :
           (entry[i] = "execute" /\ message[i].status = "OK") =>
               /\ pc[i] = "done"
               /\ outcome[i] = "returned"
               /\ StoreCalls(i) = <<>>
               /\ Last(trace[i]) = Ev("logger.info", NoId, message[i].message)
    /\ \A k \in Ids :
           (\A i \in Invocations : id[i] = k => message[i].status # "ERROR") =>
               store[k] = EmptyStore[k]

C2_Witness ==
    \E i \in Invocations :
        /\ entry[i] = "execute"
        /\ message[i].status = "OK"
        /\ outcome[i] = "returned"
        /\ store = EmptyStore

\* The exception start_job() raised under execute(), if it raised one.
StartJobRaised(i) ==
    {e.arg : e \in {x \in Elems(trace[i]) :
                      x.op = "raise" /\ x.arg \in {"ApiException", "ValueError"}}}

\* C3: when start_job() raises under execute(), that exception ends the
\* invocation (it reaches the caller), no subscription was opened and no call
\* was made on the task store.
C3_StartJobFailureStops ==
    \A i \in Invocations :
        StartJobRaised(i) # {} =>
            /\ pc[i] = "done"
            /\ StartJobRaised(i) = {outcome[i]}
            /\ Last(trace[i]) = RaiseEv(outcome[i])
            /\ Subscribes(i) = <<>>
            /\ ~subscribed[i]
            /\ delivered[i] = <<>>
            /\ StoreCalls(i) = <<>>
            /\ message[i] = None

C3_Witness ==
    \E i \in Invocations, j \in Invocations :
        /\ variant[i] = "texam" /\ outcome[i] = "ApiException"
        /\ variant[j] = "staging" /\ outcome[j] \in {"ApiException", "ValueError"}

\* C4: an execute() that returns normally has stored an OK message taken from
\* the subscription on its own identity, and log() is never entered with no
\* message stored.
C4_ReturnsOnlyAfterOk ==
    \A i \in Invocations :
        (entry[i] = "execute" /\ outcome[i] = "returned") =>
            /\ message[i].status = "OK"
            /\ [key |-> id[i], item |-> message[i]] \in Elems(delivered[i])

\* The items a subscription has produced, without the channel they came on.
ItemAt(i, n) == delivered[i][n].item

\* C5: on an object whose id was never assigned, wait() raises AttributeError
\* before any subscription is opened (nothing to block on) and log() raises it
\* before any call on the task store; under execute() the first of them, wait(),
\* ends the invocation as soon as start_job() has returned.
C5_UnsetIdFailsFirst ==
    \A i \in Invocations :
        (variant[i] # "absent" /\ ~has_id[i]) =>
            /\ Subscribes(i) = <<>>
            /\ ~subscribed[i]
            /\ delivered[i] = <<>>
            /\ thread # i
            /\ pc[i] \notin {"waiting", "appending", "ending"}
            /\ StoreCalls(i) = <<>>
            /\ entry[i] \in {"wait", "log"} =>
                   /\ pc[i] = "done"
                   /\ outcome[i] = "AttributeError"
                   /\ trace[i] = <<RaiseEv("AttributeError")>>
            /\ (entry[i] = "execute" /\ k8s[i] # <<>> /\ k8s[i][1].result = "ok") =>
                   /\ pc[i] = "done"
                   /\ outcome[i] = "AttributeError"

C5_Witness ==
    \E i \in Invocations, j \in Invocations :
        /\ ~has_id[i] /\ entry[i] = "wait" /\ outcome[i] = "AttributeError"
        /\ ~has_id[j] /\ entry[j] = "log" /\ outcome[j] = "AttributeError"

\* C6: the message wait() stores is the first non-empty item its subscription
\* produced; the items before it were taken and skipped, it is the last item
\* taken, and so neither a later item is taken nor the stored message replaced.
C6_FirstNonEmptyItemOnly ==
    \A i \in Invocations :
        /\ taken[i] <= Len(delivered[i])
        /\ message[i] = None => \A n \in 1..taken[i] : ItemAt(i, n) = None
        /\ message[i] # None =>
               /\ taken[i] >= 1
               /\ ItemAt(i, taken[i]) = message[i]
               /\ \A n \in 1..(taken[i] - 1) : ItemAt(i, n) = None

C6_Witness ==
    \E i \in Invocations :
        /\ message[i] # None
        /\ pc[i] = "done"
        /\ Len(delivered[i]) > taken[i]
        /\ ItemAt(i, taken[i] + 1) # message[i]

HasAppendCall(i) ==
    \E e \in Elems(trace[i]) : e.op = "db.add_tes_task_system_logs" /\ e.key = id[i]

\* C7 as stated: every execute() that ends by raising has appended a system
\* log entry for its identity.
C7_EveryFailureLogged ==
    \A i \in Invocations :
        (entry[i] = "execute" /\ pc[i] = "done" /\ outcome[i] # "returned") =>
            HasAppendCall(i)

\* C7, amended: an execute() that ends with the RuntimeError of an ERROR
\* message has appended that message's text to the system logs of its identity;
\* one that ends with a scheduler submission error, the ValueError of
\* BACKOFF_LIMIT or the unset-id AttributeError has made no call on the store.
C7_OnlyErrorMessagesLogged ==
    \A i \in Invocations :
        (entry[i] = "execute" /\ pc[i] = "done") =>
            /\ outcome[i] = "RuntimeError" =>
                   /\ HasAppendCall(i)
                   /\ message[i].message \in Elems(store[id[i]].system_logs)
            /\ outcome[i] \in {"ApiException", "ValueError", "AttributeError"} =>
                   StoreCalls(i) = <<>>

C7_Witness ==
    \E i \in Invocations, j \in Invocations :
        /\ entry[i] = "execute" /\ outcome[i] = "RuntimeError"
        /\ entry[j] = "execute" /\ outcome[j] = "ApiException"
        /\ store[id[i]].system_logs # <<>>

IsApiErrorLog(e) == e.op = "logger.error" /\ e.arg = "ApiException"
IsSchedulerCall(e) == e.op = "k8s.create_job"

\* C8: an invocation calls the scheduler's create_job at most once and makes no
\* other call on the scheduler; when that call answers with an ApiException the
\* error is logged once and the same exception ends the invocation, with
\* nothing done in between or after.
C8_SubmitOnceNoRetry ==
    \A i \in Invocations :
        /\ Len(k8s[i]) <= 1
        /\ \A n \in 1..Len(k8s[i]) : k8s[i][n].op = "create_job"
        /\ Len(SelectSeq(trace[i], IsSchedulerCall)) = Len(k8s[i])
        /\ (k8s[i] # <<>> /\ k8s[i][1].result = "ApiException") =>
               /\ pc[i] = "done"
               /\ outcome[i] = "ApiException"
               /\ Len(SelectSeq(trace[i], IsApiErrorLog)) = 1
               /\ Len(trace[i]) >= 3
               /\ SubSeq(trace[i], Len(trace[i]) - 2, Len(trace[i])) =
                      << Ev("k8s.create_job", NoId, ""),
                         Ev("logger.error", NoId, "ApiException"),
                         RaiseEv("ApiException") >>

C8_Witness ==
    \E i \in Invocations, j \in Invocations :
        /\ variant[i] = "texam" /\ k8s[i] # <<>> /\ k8s[i][1].result = "ApiException"
        /\ variant[j] = "staging" /\ k8s[j] # <<>> /\ k8s[j][1].result = "ApiException"
        /\ outcome[i] = "ApiException" /\ outcome[j] = "ApiException"

IsTtlWarning(e) == e.op = "logger.warning"
TtlWarnings(i) == Len(SelectSeq(trace[i], IsTtlWarning))

\* The builder of invocation i has run (create_job or start_job, up to the
\* scheduler call or to the exception that ended it).
Built(i) == variant[i] # "absent" /\ entry[i] = "execute"

\* The TTL did not stop the submission: the job went to the scheduler, or what
\* stopped create_job was int(BACKOFF_LIMIT).
Proceeds(i) ==
    \/ Len(k8s[i]) = 1
    \/ variant[i] = "staging" /\ ~PyInt(BACKOFF_LIMIT).ok /\ outcome[i] = "ValueError"

JobTtl(i) == k8s[i][1].job.ttl_seconds_after_finished

\* C9 as stated: whenever JOB_TTL is not parseable as an integer, the empty
\* text included, the job has no TTL, a warning is emitted and the submission
\* proceeds; whenever it is parseable the TTL is that integer.
C9_UnparseableTtlWarns ==
    \A i \in Invocations :
        Built(i) =>
            /\ Proceeds(i)
            /\ ~PyInt(JOB_TTL).ok =>
                   /\ TtlWarnings(i) = 1
                   /\ k8s[i] # <<>> => JobTtl(i) = NoTtl
            /\ PyInt(JOB_TTL).ok =>
                   (k8s[i] # <<>> => JobTtl(i) = Ttl(PyInt(JOB_TTL).value))

\* C9, amended: a non-empty JOB_TTL that is not parseable as an integer gives a
\* job without TTL, one warning, and the submission proceeds; an empty JOB_TTL
\* gives a job without TTL and no warning; a parseable one gives exactly that
\* integer.  In create_job and in start_job alike.
C9_TtlResolution ==
    \A i \in Invocations :
        Built(i) =>
            /\ Proceeds(i)
            /\ (JOB_TTL # <<>> /\ ~PyInt(JOB_TTL).ok) =>
                   /\ TtlWarnings(i) = 1
                   /\ k8s[i] # <<>> => JobTtl(i) = NoTtl
            /\ JOB_TTL = <<>> =>
                   /\ TtlWarnings(i) = 0
                   /\ k8s[i] # <<>> => JobTtl(i) = NoTtl
            /\ PyInt(JOB_TTL).ok =>
                   (k8s[i] # <<>> => JobTtl(i) = Ttl(PyInt(JOB_TTL).value))

C9_Witness ==
    \E i \in Invocations :
        /\ variant[i] = "texam"
        /\ JOB_TTL = <<"1", "x">>
        /\ TtlWarnings(i) = 1
        /\ k8s[i] # <<>>
        /\ k8s[i][1].result = "ok"
        /\ JobTtl(i) = NoTtl

\* C10: every job handed to the scheduler, by create_job or by start_job and
\* whatever the task id, job name, commands, arguments, metadata, task document
\* and configuration, has the one pod posture (run as non-root, fsGroupChangePolicy
\* OnRootMismatch, seccomp RuntimeDefault) and the one container posture (user
\* 1000, no privilege escalation, all capabilities dropped).
C10_HardenedPosture ==
    \A i \in Invocations :
        \A n \in 1..Len(k8s[i]) :
            LET job == k8s[i][n].job
            IN  /\ job.pod_security_context =
                       [ run_as_non_root |-> TRUE,
                         fs_group_change_policy |-> "OnRootMismatch",
                         seccomp_profile |-> "RuntimeDefault" ]
                /\ job.container.security_context =
                       [ run_as_user |-> 1000,
                         allow_privilege_escalation |-> FALSE,
                         capabilities_drop |-> <<"ALL">> ]

C10_Witness ==
    \E i \in Invocations :
        /\ variant[i] = "texam"
        /\ task[i].name = "n2"
        /\ k8s[i] # <<>>
        /\ k8s[i][1].result = "ok"
        /\ k8s[i][1].job.service_account_name = "SERVICE_ACCOUNT_NAME"

\* The names bound by a container's environment, and the shared set every
\* workload container is to carry.
SharedEnv ==
    get_message_broker_envs \o get_mongo_envs \o get_s3_envs
        \o get_secret_names \o get_configmap_names
FixedEnv == <<"POIESIS_IMAGE", "LOG_LEVEL">>

\* C11: the environment of every container handed to the scheduler, by
\* create_job and by start_job alike, starts with all the shared bindings
\* (message broker, database, object store, secrets, config maps), each once,
\* goes on with POIESIS_IMAGE and LOG_LEVEL, and has its phase-specific entries
\* only after these.
C11_SharedEnvThenFixed ==
    \A i \in Invocations :
        \A n \in 1..Len(k8s[i]) :
            LET env == k8s[i][n].job.container.env
                s == Len(SharedEnv)
            IN  /\ Len(env) >= s + 2
                /\ Elems(SubSeq(env, 1, s)) = Elems(SharedEnv)
                /\ SubSeq(env, s + 1, s + 2) = FixedEnv
                /\ \A m \in (s + 3)..Len(env) :
                       env[m] \notin Elems(SharedEnv) \cup Elems(FixedEnv)

\* The task a job works for: the task_id handed to create_job, the task of a
\* TorcTexamExecution.
TaskIdOf(i) == IF variant[i] = "staging" THEN call[i].task_id ELSE id[i]

\* The container mounts a volume the job declares on the claim PVC_PREFIX-<task id>.
MountsTaskPvc(i, job) ==
    \E v \in Elems(job.volumes) :
        /\ v.claim_name = PVC_PREFIX \o <<"-">> \o TaskIdOf(i)
        /\ \E m \in Elems(job.container.volume_mounts) : m.name = v.name

\* C12: a job handed to the scheduler mounts the persistent volume claim
\* PVC_PREFIX-<task id> exactly when create_job built it (a staging job), and
\* names a service account exactly when TorcTexamExecution.start_job built it; a
\* task-execution job declares no volume and no mount at all.
C12_PvcIffStaging ==
    \A i \in Invocations :
        \A n \in 1..Len(k8s[i]) :
            LET job == k8s[i][n].job
            IN  /\ MountsTaskPvc(i, job) <=> variant[i] = "staging"
                /\ job.service_account_name # "None" <=> variant[i] = "texam"
                /\ variant[i] = "texam" =>
                       job.volumes = <<>> /\ job.container.volume_mounts = <<>>
                /\ variant[i] = "staging" => Len(job.volumes) = 1

C12_Witness ==
    \E i \in Invocations :
        /\ variant[i] = "staging"
        /\ call[i].job_name = TOF_PREFIX
        /\ k8s[i] # <<>>
        /\ k8s[i][1].result = "ok"
        /\ k8s[i][1].job.volumes[1].claim_name = <<"p", "v", "c", "-", "b">>
        /\ k8s[i][1].job.service_account_name = "None"

\* How often invocation i logged the text m as an error.
ErrorLogs(i, m) ==
    Cardinality({n \in 1..Len(trace[i]) : trace[i][n] = Ev("logger.error", NoId, m)})

\* What wait() does on receipt of an ERROR message with text m on channel k.
ReceiptOf(k, m) ==
    << Ev("broker.next", k, "ERROR"),
       Ev("logger.error", NoId, m),
       Ev("self.message", NoId, m) >>

\* What log() then does up to its first call on the task store.
RecordOf(k, m) ==
    << Ev("logger.error", NoId, m),
       Ev("db.add_tes_task_system_logs", k, m) >>

HasRun(q, part) ==
    \E p \in 1..Len(q) :
        p + Len(part) - 1 <= Len(q) /\ SubSeq(q, p, p + Len(part) - 1) = part

\* C13: an invocation of execute() that received an ERROR message with text m
\* has logged m as an error exactly twice: in wait(), right after the item was
\* taken and before it was stored in self.message, and in log(), right before
\* the first call on the task store.  (wait() called by itself logs it once.)
C13_ErrorLoggedTwice ==
    \A i \in Invocations :
        message[i].status = "ERROR" =>
            LET m == message[i].message
            IN  /\ entry[i] = "execute" =>
                       /\ ErrorLogs(i, m) = 2
                       /\ HasRun(trace[i], ReceiptOf(id[i], m) \o RecordOf(id[i], m))
                /\ entry[i] = "wait" =>
                       /\ ErrorLogs(i, m) = 1
                       /\ HasRun(trace[i], ReceiptOf(id[i], m))

C13_Witness ==
    \E i \in Invocations :
        /\ entry[i] = "execute"
        /\ message[i].status = "ERROR"
        /\ ErrorLogs(i, message[i].message) = 2
        /\ pc[i] = "done"
        /\ outcome[i] = "RuntimeError"

\* The invocations that carry an identity.
Identified == {i \in Invocations : variant[i] # "absent" /\ has_id[i]}

DistinctIdentities ==
    \A i \in Identified : \A j \in Identified : i # j => id[i] # id[j]

\* Invocation i took an ERROR message that was published on its own identity.
OwnError(i) ==
    /\ message[i].status = "ERROR"
    /\ [key |-> id[i], item |-> message[i]] \in Elems(delivered[i])

\* C14: when the invocations have pairwise distinct identities, everything an
\* invocation's subscription produced was published on the channel of its own
\* identity, the message it stored is one of these, every call it makes on the
\* task store is keyed by its own identity, a task's document is written only
\* after an ERROR message was published on that task's own channel and taken by
\* its invocation, and an invocation fails in log() only on such a message.
C14_Isolation ==
    DistinctIdentities =>
        /\ \A i \in Identified :
               /\ \A n \in 1..Len(delivered[i]) : delivered[i][n].key = id[i]
               /\ message[i] # None =>
                      [key |-> id[i], item |-> message[i]] \in Elems(delivered[i])
               /\ \A n \in 1..Len(trace[i]) :
                      IsStoreCall(trace[i][n]) => trace[i][n].key = id[i]
               /\ outcome[i] \in {"RuntimeError", "StoreError"} => OwnError(i)
        /\ \A k \in Ids :
               store[k] # EmptyStore[k] =>
                   \E i \in Identified : id[i] = k /\ OwnError(i)

C14_Witness ==
    \E i \in Invocations, j \in Invocations :
        /\ DistinctIdentities
        /\ entry[i] = "execute" /\ entry[j] = "execute"
        /\ id[i] # id[j]
        /\ outcome[i] = "RuntimeError"
        /\ store[id[i]].system_logs = <<message[i].message>>
        /\ outcome[j] = "returned"
        /\ message[j].status = "OK"
        /\ store[id[j]] = EmptyStore[id[j]]

\* A job name without its role prefix and the dash after it.
StripRole(name, role) == SubSeq(name, Len(role) + 2, Len(name))

Submitted(i) == k8s[i] # <<>>
JobName(i) == k8s[i][1].job.metadata.name

\* C15: the name of a task-execution job is TEXAM_PREFIX, a dash and the
\* identity, and the channel an invocation subscribes on is the identity
\* itself; two invocations have the same job name, and the same channel,
\* exactly when they have the same identity; and the job name without its role
\* prefix is the channel wait() subscribes on and the key of every call log()
\* makes on the task store.
C15_NameAndKeyFromIdentity ==
    LET ch == [i \in Invocations |-> Channel(i)]
        texams == {i \in Invocations : variant[i] = "texam" /\ Submitted(i)}
    IN  /\ \A i \in Invocations : ch[i] # NoId => ch[i] = id[i]
        /\ \A i \in texams :
               LET key == StripRole(JobName(i), TEXAM_PREFIX)
               IN  /\ JobName(i) = TEXAM_PREFIX \o <<"-">> \o id[i]
                   /\ k8s[i][1].job.metadata.labels.name = JobName(i)
                   /\ IsPrefix(TEXAM_PREFIX \o <<"-">>, JobName(i))
                   /\ key = id[i]
                   /\ ch[i] # NoId => ch[i] = key
                   /\ \A n \in 1..Len(trace[i]) :
                          IsStoreCall(trace[i][n]) => trace[i][n].key = key
        /\ \A i \in texams : \A j \in texams :
               /\ JobName(i) = JobName(j) <=> id[i] = id[j]
               /\ (ch[i] # NoId /\ ch[j] # NoId) => (ch[i] = ch[j] <=> id[i] = id[j])

C15_Witness ==
    \E i \in Invocations, j \in Invocations :
        /\ variant[i] = "texam" /\ variant[j] = "texam"
        /\ id[i] = <<"a">> /\ id[j] = <<"b">>
        /\ Submitted(i) /\ Submitted(j)
        /\ JobName(i) = <<"t", "e", "x", "a", "m", "-", "a">>
        /\ JobName(j) = <<"t", "e", "x", "a", "m", "-", "b">>
        /\ Channel(i) = <<"a">> /\ Channel(j) = <<"b">>
        /\ \E n \in 1..Len(trace[i]) :
               trace[i][n] = Ev("db.add_tes_task_system_logs", <<"a">>, "disk full")

\* C16: an invocation of execute() whose job the scheduler accepted and whose
\* job has published its completion message on the channel of the identity
\* eventually ends (returns or raises), whenever the job published it.
C16_ReportedLeadsToDone ==
    \A i \in Invocations :
        (Submitted(i) /\ k8s[i][1].result = "ok" /\ reported[i]) ~> (pc[i] = "done")

\* Invocation j has started and is suspended at an await (on the scheduler or
\* on the task store) or about to go on from it.
Suspended(j) == pc[j] \in {"submitting", "appending", "ending"}

\* C17: while an invocation of execute() is in wait(), the coroutine of another
\* invocation of execute() with a different identity that is suspended at one of its awaits can take
\* its next step (go on from the scheduler's answer into its own subscription,
\* go on from the store's answer to its outcome).
C17_OthersStepDuringWait ==
    \A i \in Identified : \A j \in Identified :
        (i # j /\ id[i] # id[j] /\ entry[i] = "execute" /\ entry[j] = "execute"
           /\ pc[i] = "waiting" /\ Suspended(j)) =>
            ENABLED ExecuteStep(j)

AppendCall(k, m) == Ev("db.add_tes_task_system_logs", k, m)
EndTimeCall(k) == Ev("db.add_tes_task_log_end_time", k, "")

\* C18: in log() under execute() with an ERROR message of text m, a failure of
\* the system-log append ends the invocation with the store's error, with no
\* call to set the end time and no RuntimeError; the end time is requested only
\* with the entry in the store, and a failure of that call ends the invocation
\* with the store's error and the entry still in the store; the RuntimeError is
\* raised only after both writes are in the store; and the invocation never
\* returns normally.
C18_StoreFailurePropagates ==
    \A i \in Invocations :
        (entry[i] = "execute" /\ message[i].status = "ERROR") =>
            LET E == Effects(i)
                k == id[i]
                m == message[i].message
            IN  /\ outcome[i] # "returned"
                /\ outcome[i] = "StoreError" =>
                       /\ pc[i] = "done"
                       /\ Last(trace[i]) = RaiseEv("StoreError")
                       /\ RaiseEv("RuntimeError") \notin Elems(trace[i])
                       /\ \/ E = <<AppendCall(k, m), RaiseEv("StoreError")>>
                          \/ E = <<AppendCall(k, m), EndTimeCall(k), RaiseEv("StoreError")>>
                /\ EndTimeCall(k) \in Elems(trace[i]) =>
                       m \in Elems(store[k].system_logs)
                /\ outcome[i] = "RuntimeError" =>
                       /\ m \in Elems(store[k].system_logs)
                       /\ store[k].end_time
                       /\ RaiseEv("StoreError") \notin Elems(trace[i])

C18_Witness ==
    \E i \in Invocations, j \in Invocations :
        /\ id[i] # id[j]
        /\ entry[i] = "execute" /\ entry[j] = "execute"
        /\ message[i].status = "ERROR" /\ message[j].status = "ERROR"
        /\ Effects(i) = << AppendCall(id[i], message[i].message), RaiseEv("StoreError") >>
        /\ store[id[i]] = EmptyStore[id[i]]
        /\ Effects(j) = << AppendCall(id[j], message[j].message), EndTimeCall(id[j]),
                           RaiseEv("StoreError") >>
        /\ store[id[j]] = [system_logs |-> <<message[j].message>>, end_time |-> FALSE]

====
